---------------------------- MODULE Spec2Model ----------------------------
(***************************************************************************)
(* A model of the per-frame physics system `moving` of src/src/main.rs     *)
(* (an n-body gravity step over the Star components of a Bevy world) and   *)
(* of the helper limit_length.                                             *)
(*                                                                         *)
(* Numbers.  The program computes in f64 and narrows the display position  *)
(* to f32.  The model computes in fixed point: every quantity is an        *)
(* integer count of a unit, and every operation that rounds in the program *)
(* (sqrt, division, the rescale of a vector, the narrowing to f32) rounds  *)
(* to nearest in the model as well, at the precision of the scales below.  *)
(* The program's constants are given in those units; what is kept is their *)
(* role, their order (max_velocity < max_acceleration, min_gravity_distance*)
(* < galaxy_diameter) and which constant each line of the code uses.       *)
(*   position      : position units (galaxy_diameter is 3 of them)         *)
(*   velocity,                                                             *)
(*   acceleration  : units of 1e-3 (max_velocity 1e-2 is 10 of them)       *)
(*   length()      : 1/LenScale of the unit of its vector                  *)
(*   normalize()   : 1/UnitScale                                           *)
(*   temp          : 1/TempScale                                           *)
(*   display       : whole display units after narrowing, 1/DisplayScale   *)
(*                   before                                                *)
(*                                                                         *)
(* Indices are those of the code: a Vec of n stars is a function on        *)
(* 0..n-1 and the anchor is index 0.                                       *)
(*                                                                         *)
(* Every variable is a function of the run (1 or 2): run 1 is the program, *)
(* run 2 a second execution of the same code that is fed the elapsed times *)
(* run 1 was fed (used only by SpecDet, for the determinism claim).        *)
(***************************************************************************)
EXTENDS Integers, Sequences, FiniteSets, TLC

VARIABLES
    star,        \* [run -> [0..n-1 -> Star]]: the Star components of the world
    transform,   \* [run -> [0..n-1 -> vector]]: Transform.translation of each entity
    stars,       \* the local Vec<Star> of moving
    pc,          \* where moving is: idle, force, pair, integrate, pin, scale, graphics, panicked
    i,           \* outer loop index
    j,           \* inner loop index
    time,        \* Res<Time>: the frame's elapsed time, in time quanta
    time_delta,  \* the local time_delta
    min,         \* the local min
    max,         \* the local max
    max_delta,   \* the local max_delta
    ticks,       \* completed runs of moving
    start,       \* history: the Star components when the current tick began
    order,       \* history: the indices j accumulated so far into stars[i].acceleration
    deltas       \* history: the elapsed times fed to run 1, in order

vars == <<star, transform, stars, pc, i, j, time, time_delta, min, max,
          max_delta, ticks, start, order, deltas>>

Runs == {1, 2}

(***************************** bounds ***************************************)
\* the largest population, the ticks a run takes, the longest frame in quanta
MaxStars == 3
MaxTicks == 2
MaxDt == 2

(************************ the program's constants ***************************)
\* in the units of the model; the code's values are in the comments
G == 256                      \* line 16: 6.674e-11
black_hole_mass == 0          \* line 18: 0.0
galaxy_diameter == 3          \* line 21: 1.0e13
time_factor == 1              \* line 22: 1.0e14
max_velocity == 10            \* line 24: 1e-2, the limit of the acceleration
max_acceleration == 100       \* line 25: 1e-1, the limit of the velocity
min_gravity_distance == 1     \* line 26: 1.0e1
DisplaySize == 1000           \* line 166: 1000.0

(************************ fixed-point precision *****************************)
\* length() is held in 1/LenScale, normalize() in 1/UnitScale, temp in
\* 1/TempScale, the display position before `as f32` in 1/DisplayScale
LenScale == 16
UnitScale == 4096
TempScale == 256
DisplayScale == 256
\* a * 0.5 is exact in binary floating point: delta is held in halves
HalfScale == 2
\* Duration counts quanta, QuantaPerSec to the second; seconds are held in 1/SecScale
QuantaPerSec == 2
SecScale == 10
\* velocity units x (1/SecScale) seconds x time_factor that make one position unit
PosScale == 125

(***************************** arithmetic ***********************************)
Abs(x) == IF x < 0 THEN -x ELSE x

\* n / d rounded to nearest, ties away from zero (d > 0)
RoundDiv(n, d) ==
    IF n >= 0 THEN (2 * n + d) \div (2 * d) ELSE -((2 * (-n) + d) \div (2 * d))

RECURSIVE SqrtSearch(_, _, _)
SqrtSearch(n, lo, hi) ==
    IF lo >= hi THEN lo
    ELSE LET mid == (lo + hi + 1) \div 2
         IN IF mid * mid <= n THEN SqrtSearch(n, mid, hi)
                              ELSE SqrtSearch(n, lo, mid - 1)

\* sqrt(n) rounded to nearest
Sqrt(n) ==
    LET s == SqrtSearch(n, 0, 46340)
    IN IF n - s * s > s THEN s + 1 ELSE s

Axes == 1..3
Zero == <<0, 0, 0>>
VAdd(a, b) == [c \in Axes |-> a[c] + b[c]]
VSub(a, b) == [c \in Axes |-> a[c] - b[c]]
VMul(a, k) == [c \in Axes |-> a[c] * k]
Dot(a, b) == a[1] * b[1] + a[2] * b[2] + a[3] * b[3]

\* DVec3::length, in 1/LenScale
length(v) == Sqrt(Dot(v, v) * LenScale * LenScale)

\* DVec3::normalize = v * (1 / length), in 1/UnitScale
normalize(v) == [c \in Axes |-> RoundDiv(v[c] * UnitScale * LenScale, length(v))]

\* variant: the length is never limited
limit_length_unclamped(v, len) == v

\* lines 104-108
limit_length(v, len) ==
    IF length(v) > len * LenScale
    THEN [c \in Axes |-> RoundDiv(normalize(v)[c] * len, UnitScale)]
    ELSE v

\* f64::powf(3.0) of a length, in whole units
powf3(r) == RoundDiv(r * r * r, LenScale * LenScale * LenScale)

Count(s) == Cardinality(DOMAIN s)


Min2(a, b) == IF a < b THEN a ELSE b
Max2(a, b) == IF a > b THEN a ELSE b

(************************** the data the runs start from ********************)
Star(p, v, a, m) == [position |-> p, velocity |-> v, acceleration |-> a, mass |-> m]

\* a Vec: the sequence's elements at the code's indices 0..n-1
VecOf(seq) == [k \in 0..(Len(seq) - 1) |-> seq[k + 1]]

\* anchors: as setup makes them (origin, black_hole_mass, with and without
\* spin), and as a caller of the tick may hand them over (massive, off origin)
Anchors ==
    { Star(Zero, Zero, Zero, black_hole_mass),
      Star(Zero, <<1, 0, 0>>, <<1, 0, 0>>, black_hole_mass),
      Star(Zero, Zero, Zero, 1),
      Star(<<1, 0, 0>>, Zero, <<0, 0, 30>>, 2) }

\* other bodies: at galaxy_diameter on the x axis; outside the 2*diameter
\* sphere; exactly at min_gravity_distance from the origin; at the origin;
\* with velocity and acceleration above the limits; with a stale acceleration
Others ==
    { Star(<<3, 0, 0>>, Zero, Zero, 1),
      Star(<<9, 0, 0>>, Zero, Zero, 1),
      Star(<<0, 1, 0>>, Zero, Zero, 2),
      Star(Zero, <<0, 98, 0>>, <<0, 1, 0>>, 1),
      Star(<<6, 2, 0>>, <<300, 400, 0>>, <<50, 0, 0>>, 1),
      Star(<<-4, 4, 2>>, Zero, <<0, 0, 7>>, 2) }

Triples ==
    { <<Star(Zero, Zero, Zero, 2), Star(<<3, 0, 0>>, Zero, Zero, 1),
        Star(<<-4, 3, 0>>, Zero, <<0, 0, 7>>, 2)>>,
      <<Star(Zero, <<1, 0, 0>>, <<1, 0, 0>>, black_hole_mass),
        Star(<<0, 1, 0>>, <<0, 98, 0>>, Zero, 2),
        Star(<<2, -2, 1>>, <<300, 400, 0>>, <<50, 0, 0>>, 1)>>,
      <<Star(<<1, 0, 0>>, Zero, Zero, 1), Star(<<1, 0, 0>>, <<0, 3, 0>>, Zero, 1),
        Star(<<0, -5, 2>>, Zero, Zero, 2)>> }

Quadruples ==
    { <<Star(Zero, Zero, Zero, 2), Star(<<3, 0, 0>>, Zero, Zero, 1),
        Star(<<-4, 3, 0>>, Zero, <<0, 0, 7>>, 2),
        Star(<<0, 0, -2>>, <<0, 98, 0>>, Zero, 1)>> }

Populations ==
    { p \in {<<>>} \cup {<<a>> : a \in Anchors}
            \cup {<<a, b>> : a \in Anchors, b \in Others}
            \cup Triples \cup Quadruples : Len(p) <= MaxStars }

\* Transform::from_xyz of setup, and another placement
Placements == {<<0, 0, 0>>, <<0, 1, 0>>}

\* Duration: whole time quanta
Durations == 0..MaxDt

(****************************** moving **************************************)
\* Duration::as_secs_f64
as_secs_f64(d) == RoundDiv(d * SecScale, QuantaPerSec)

\* variant: a pair exactly at the threshold attracts
AttractsAtThreshold(distance_length) == distance_length >= min_gravity_distance * LenScale

\* line 126
Attracts(distance_length) == distance_length > min_gravity_distance * LenScale

\* variant: the distance taken from j to i
ContributionRepelling(s, ii, jj) ==
    LET distance == VSub(s[ii].position, s[jj].position)
        distance_length == length(distance)
    IN IF Attracts(distance_length)
       THEN LET temp == RoundDiv(G * s[jj].mass * TempScale, powf3(distance_length))
            IN [c \in Axes |-> RoundDiv(distance[c] * temp, TempScale)]
       ELSE Zero

\* variant: the mass of body i in place of that of body j
ContributionOwnMass(s, ii, jj) ==
    LET distance == VSub(s[jj].position, s[ii].position)
        distance_length == length(distance)
    IN IF Attracts(distance_length)
       THEN LET temp == RoundDiv(G * s[ii].mass * TempScale, powf3(distance_length))
            IN [c \in Axes |-> RoundDiv(distance[c] * temp, TempScale)]
       ELSE Zero

\* lines 124-129: what body jj adds to the acceleration of body ii
Contribution(s, ii, jj) ==
    LET distance == VSub(s[jj].position, s[ii].position)
        distance_length == length(distance)
    IN IF Attracts(distance_length)
       THEN LET temp == RoundDiv(G * s[jj].mass * TempScale, powf3(distance_length))
            IN [c \in Axes |-> RoundDiv(distance[c] * temp, TempScale)]
       ELSE Zero

\* variant: the acceleration multiplied by time_delta before it is added
IntegrateStarTimesDt(s, td) ==
    LET a1 == limit_length(s.acceleration, max_velocity)
        v1 == limit_length(VAdd(s.velocity, VMul(a1, td)), max_acceleration)
        delta == VAdd(VMul(v1, HalfScale), a1)
        move == [c \in Axes |->
                    RoundDiv(delta[c] * td * time_factor, HalfScale * PosScale)]
        p1 == limit_length(VAdd(s.position, move), 2 * galaxy_diameter)
    IN [s EXCEPT !.acceleration = a1, !.velocity = v1, !.position = p1]

\* lines 136-145: one star integrated over time_delta (td)
IntegrateStar(s, td) ==
    LET a1 == limit_length(s.acceleration, max_velocity)
        v1 == limit_length(VAdd(s.velocity, a1), max_acceleration)
        delta == VAdd(VMul(v1, HalfScale), a1)
        move == [c \in Axes |->
                    RoundDiv(delta[c] * td * time_factor, HalfScale * PosScale)]
        p1 == limit_length(VAdd(s.position, move), 2 * galaxy_diameter)
    IN [s EXCEPT !.acceleration = a1, !.velocity = v1, !.position = p1]

\* lines 150-160: min and max after stars k..n-1, given them before
RECURSIVE Box(_, _, _, _)
Box(s, k, mn, mx) ==
    IF k >= Count(s) THEN <<mn, mx>>
    ELSE LET p == s[k].position
             mn1 == [c \in Axes |-> Min2(p[c], mn[c])]
             mx1 == [c \in Axes |-> Max2(p[c], mn1[c])]
         IN Box(s, k + 1, mn1, mx1)

\* line 161
MaxDelta(mn, mx) == Max2(Max2(mx[1] - mn[1], mx[2] - mn[2]), mx[3] - mn[3])

\* variant: line 162, commented out in the code
ofs_centered(mn, mx) == [c \in Axes |-> mn[c] + (mx[c] - mn[c]) \div 2]

\* line 163
ofs(mn, mx) == Zero

\* line 166, in 1/DisplayScale
scale == RoundDiv(DisplaySize * DisplayScale, galaxy_diameter)

\* `as f32`: the f64 narrowed to the display's precision
as_f32(x) == RoundDiv(x, DisplayScale)

\* lines 170-171: the value of Vec3::new(v.x as f32, v.y as f32, v.z as f32)
Translation(p, mn, mx) == [c \in Axes |-> as_f32((p[c] - ofs(mn, mx)[c]) * scale)]

TypeOK ==
    /\ \A r \in Runs :
          /\ pc[r] \in {"idle", "force", "pair", "integrate", "pin", "scale",
                        "graphics", "panicked"}
          /\ DOMAIN star[r] = DOMAIN transform[r]
          /\ ticks[r] \in 0..MaxTicks
    /\ Len(deltas) <= MaxTicks

InitRun(p, t1, t2) ==
    /\ star = [r \in Runs |-> VecOf(p)]
    /\ transform = [r \in Runs |-> [k \in DOMAIN VecOf(p) |-> IF r = 1 THEN t1 ELSE t2]]
    /\ stars = [r \in Runs |-> <<>>]
    /\ pc = [r \in Runs |-> "idle"]
    /\ i = [r \in Runs |-> 0]
    /\ j = [r \in Runs |-> 0]
    /\ time = [r \in Runs |-> 0]
    /\ time_delta = [r \in Runs |-> 0]
    /\ min = [r \in Runs |-> Zero]
    /\ max = [r \in Runs |-> Zero]
    /\ max_delta = [r \in Runs |-> 0]
    /\ ticks = [r \in Runs |-> 0]
    /\ start = [r \in Runs |-> VecOf(p)]
    /\ order = [r \in Runs |-> <<>>]
    /\ deltas = <<>>

Init == \E p \in Populations : \E t \in Placements : InitRun(p, t, t)

\* the frame begins: lines 113-117
BeginTick(r, d) ==
    /\ pc[r] = "idle"
    /\ ticks[r] < MaxTicks
    /\ time' = [time EXCEPT ![r] = d]
    /\ stars' = [stars EXCEPT ![r] = star[r]]
    /\ start' = [start EXCEPT ![r] = star[r]]
    /\ i' = [i EXCEPT ![r] = 0]
    /\ pc' = [pc EXCEPT ![r] = "force"]
    /\ UNCHANGED <<star, transform, j, time_delta, min, max, max_delta, ticks, order>>

\* line 121
AccelReset(r) ==
    /\ pc[r] = "force"
    /\ i[r] < Count(stars[r])
    /\ stars' = [stars EXCEPT ![r][i[r]].acceleration = Zero]
    /\ order' = [order EXCEPT ![r] = <<>>]
    /\ j' = [j EXCEPT ![r] = 0]
    /\ pc' = [pc EXCEPT ![r] = "pair"]
    /\ UNCHANGED <<star, transform, i, time, time_delta, min, max, max_delta,
                   ticks, start, deltas>>

\* lines 122-130, one j
AccelPair(r) ==
    /\ pc[r] = "pair"
    /\ j[r] < Count(stars[r])
    /\ IF i[r] # j[r]
       THEN /\ stars' = [stars EXCEPT ![r][i[r]].acceleration =
                            VAdd(@, Contribution(stars[r], i[r], j[r]))]
            /\ order' = [order EXCEPT ![r] = Append(@, j[r])]
       ELSE UNCHANGED <<stars, order>>
    /\ j' = [j EXCEPT ![r] = @ + 1]
    /\ UNCHANGED <<star, transform, pc, i, time, time_delta, min, max, max_delta,
                   ticks, start, deltas>>

\* variant: body i is integrated as soon as its row is summed
AccelNextFused(r) ==
    /\ pc[r] = "pair"
    /\ j[r] >= Count(stars[r])
    /\ stars' = [stars EXCEPT ![r][i[r]] = IntegrateStar(@, as_secs_f64(time[r]))]
    /\ i' = [i EXCEPT ![r] = @ + 1]
    /\ pc' = [pc EXCEPT ![r] = "force"]
    /\ UNCHANGED <<star, transform, j, time, time_delta, min, max, max_delta,
                   ticks, start, order, deltas>>

\* line 122 leaves the inner loop, line 120 goes to the next i
AccelNext(r) ==
    /\ pc[r] = "pair"
    /\ j[r] >= Count(stars[r])
    /\ i' = [i EXCEPT ![r] = @ + 1]
    /\ pc' = [pc EXCEPT ![r] = "force"]
    /\ UNCHANGED <<star, transform, stars, j, time, time_delta, min, max, max_delta,
                   ticks, start, order, deltas>>

\* line 120 leaves the loop; line 134
ReadTime(r) ==
    /\ pc[r] = "force"
    /\ i[r] >= Count(stars[r])
    /\ time_delta' = [time_delta EXCEPT ![r] = as_secs_f64(time[r])]
    /\ i' = [i EXCEPT ![r] = 0]
    /\ pc' = [pc EXCEPT ![r] = "integrate"]
    /\ UNCHANGED <<star, transform, stars, j, time, min, max, max_delta, ticks,
                   start, order, deltas>>

\* lines 135-146, one i
Integrate(r) ==
    /\ pc[r] = "integrate"
    /\ i[r] < Count(stars[r])
    /\ stars' = [stars EXCEPT ![r][i[r]] = IntegrateStar(@, time_delta[r])]
    /\ i' = [i EXCEPT ![r] = @ + 1]
    /\ UNCHANGED <<star, transform, pc, j, time, time_delta, min, max, max_delta,
                   ticks, start, order, deltas>>

IntegrateDone(r) ==
    /\ pc[r] = "integrate"
    /\ i[r] >= Count(stars[r])
    /\ pc' = [pc EXCEPT ![r] = "pin"]
    /\ UNCHANGED <<star, transform, stars, i, j, time, time_delta, min, max,
                   max_delta, ticks, start, order, deltas>>

\* variant: line 147 left out
PinnedUnpinned(s) == s

\* line 147 on a Vec that has an element 0
Pinned(s) == [s EXCEPT ![0].position = Zero]

\* line 147: indexing an empty Vec panics
PinAnchor(r) ==
    /\ pc[r] = "pin"
    /\ IF Count(stars[r]) = 0
       THEN /\ pc' = [pc EXCEPT ![r] = "panicked"]
            /\ UNCHANGED stars
       ELSE /\ stars' = [stars EXCEPT ![r] = Pinned(@)]
            /\ pc' = [pc EXCEPT ![r] = "scale"]
    /\ UNCHANGED <<star, transform, i, j, time, time_delta, min, max, max_delta,
                   ticks, start, order, deltas>>

\* lines 149-166
ComputeScale(r) ==
    /\ pc[r] = "scale"
    /\ LET box == Box(stars[r], 0, stars[r][0].position, stars[r][0].position)
       IN /\ min' = [min EXCEPT ![r] = box[1]]
          /\ max' = [max EXCEPT ![r] = box[2]]
          /\ max_delta' = [max_delta EXCEPT ![r] = MaxDelta(box[1], box[2])]
    /\ pc' = [pc EXCEPT ![r] = "graphics"]
    /\ UNCHANGED <<star, transform, stars, i, j, time, time_delta, ticks, start,
                   order, deltas>>

\* variant: += in place of =
set_translation_added(old, v) == VAdd(old, v)

\* line 171: transform.translation = v, whatever it was
set_translation(old, v) == v

\* lines 168-174
UpdateGraphics(r) ==
    /\ pc[r] = "graphics"
    /\ transform' = [transform EXCEPT ![r] =
                        [k \in DOMAIN star[r] |->
                            set_translation(transform[r][k],
                                Translation(stars[r][k].position, min[r], max[r]))]]
    /\ star' = [star EXCEPT ![r] = stars[r]]
    /\ ticks' = [ticks EXCEPT ![r] = @ + 1]
    /\ pc' = [pc EXCEPT ![r] = "idle"]
    /\ UNCHANGED <<stars, i, j, time, time_delta, min, max, max_delta, start,
                   order, deltas>>

\* the steps of moving after its first
Step(r) ==
    \/ AccelReset(r)
    \/ AccelPair(r)
    \/ AccelNext(r)
    \/ ReadTime(r)
    \/ Integrate(r)
    \/ IntegrateDone(r)
    \/ PinAnchor(r)
    \/ ComputeScale(r)
    \/ UpdateGraphics(r)

\* the engine runs the system with the frame's elapsed time
Frame ==
    \E d \in Durations :
        /\ BeginTick(1, d)
        /\ deltas' = Append(deltas, d)

Next == Frame \/ Step(1)

Spec == Init /\ [][Next]_vars

(********************* a second run on the same inputs **********************)
InitDet == \E p \in Populations : \E t1 \in Placements : \E t2 \in Placements :
    InitRun(p, t1, t2)

\* run 1 takes its next frame once run 2 has caught up
FrameFirst ==
    /\ pc[2] = "idle"
    /\ ticks[2] = ticks[1]
    /\ Frame

\* run 2 is fed the elapsed time run 1 was fed for the same tick
FrameSecond ==
    /\ pc[1] \in {"idle", "panicked"}
    /\ Len(deltas) > ticks[2]
    /\ BeginTick(2, deltas[ticks[2] + 1])
    /\ UNCHANGED deltas

NextDet == FrameFirst \/ FrameSecond \/ Step(1) \/ Step(2)

SpecDet == InitDet /\ [][NextDet]_vars

(****************************** the claims **********************************)
\* run 1 has completed at least one tick and is between ticks
AfterTick(r) == pc[r] = "idle" /\ ticks[r] >= 1

Square(x) == x * x

\* the term the force phase is to add to body ii for body jj
PairTerm(s, ii, jj) ==
    LET d == VSub(s[jj].position, s[ii].position)
    IN IF ii = jj \/ Dot(d, d) <= Square(min_gravity_distance)
       THEN Zero
       ELSE LET r3 == powf3(length(d))
                k == RoundDiv(G * s[jj].mass * TempScale, r3)
            IN [c \in Axes |-> RoundDiv(d[c] * k, TempScale)]

\* the terms of bodies 0..n-1 for body ii, summed in ascending order
RECURSIVE SumTerms(_, _, _)
SumTerms(s, ii, n) ==
    IF n = 0 THEN Zero ELSE VAdd(SumTerms(s, ii, n - 1), PairTerm(s, ii, n - 1))

FreshAcceleration(s, ii) == SumTerms(s, ii, Count(s))

\* clamp(x, L): x when |x| <= L, else x rescaled to length L
ClampTo(x, L) ==
    IF length(x) <= L * LenScale
    THEN x
    ELSE LET n == length(x)
         IN [c \in Axes |->
                RoundDiv(RoundDiv(x[c] * UnitScale * LenScale, n) * L, UnitScale)]

\* ascending list of the indices below n other than ii
RECURSIVE Ascending(_, _)
Ascending(ii, n) ==
    IF n = 0 THEN <<>>
    ELSE IF n - 1 = ii THEN Ascending(ii, n - 1)
         ELSE Append(Ascending(ii, n - 1), n - 1)

\* C1: after every tick on a population of at least one body, the anchor
\* (index 0) stored in the world is at the origin.
C1_AnchorAtOrigin ==
    (AfterTick(1) /\ Count(star[1]) >= 1) => star[1][0].position = Zero

\* the anchor began the tick off the origin with an acceleration, time passed
C1_Witness ==
    /\ AfterTick(1)
    /\ Count(star[1]) >= 2
    /\ start[1][0].position # Zero
    /\ time[1] > 0
    /\ star[1][0].velocity # Zero
    /\ star[1][0].position = Zero

\* C3: during the force phase no position, velocity or mass of the working
\* copy differs from the start of the tick, and when the integration phase
\* begins (and for every body it has not reached yet) the acceleration is the
\* sum of the pair terms over the positions at the start of the tick.
C3_ForceFromSnapshot ==
    /\ pc[1] \in {"force", "pair"} =>
          \A k \in DOMAIN stars[1] :
              /\ stars[1][k].position = start[1][k].position
              /\ stars[1][k].velocity = start[1][k].velocity
              /\ stars[1][k].mass = start[1][k].mass
    /\ pc[1] = "force" =>
          \A k \in DOMAIN stars[1] :
              k < i[1] => stars[1][k].acceleration = FreshAcceleration(start[1], k)
    /\ pc[1] = "integrate" =>
          \A k \in DOMAIN stars[1] :
              k >= i[1] => stars[1][k].acceleration = FreshAcceleration(start[1], k)

\* three bodies, the first already integrated and moved, the last not yet
C3_Witness ==
    /\ pc[1] = "integrate"
    /\ i[1] = 1
    /\ Count(stars[1]) = 3
    /\ stars[1][0].position # start[1][0].position
    /\ stars[1][2].acceleration # Zero
    /\ stars[1][2].acceleration = FreshAcceleration(start[1], 2)

\* C7: each step of the inner loop adds to body i's acceleration exactly the
\* pair term of (i, j): zero for j = i and for a distance at or below
\* min_gravity_distance, (position_j - position_i) * G * mass_j / r^3 above it.
C7_PairContribution ==
    [][(pc[1] = "pair" /\ j[1] < Count(stars[1])) =>
          stars'[1][i[1]].acceleration =
              VAdd(stars[1][i[1]].acceleration, PairTerm(stars[1], i[1], j[1]))]_vars

\* body 0's row is done: body 1 sits exactly at the threshold and added
\* nothing, body 2 is beyond it and added its term
C7_Witness ==
    /\ pc[1] = "pair"
    /\ i[1] = 0
    /\ j[1] = 3
    /\ order[1] = <<1, 2>>
    /\ Dot(VSub(stars[1][1].position, stars[1][0].position),
           VSub(stars[1][1].position, stars[1][0].position))
          = Square(min_gravity_distance)
    /\ stars[1][1].mass > 0
    /\ stars[1][0].acceleration # Zero
    /\ stars[1][0].acceleration = PairTerm(stars[1], 0, 2)

\* |x| <= L, the length taken as the program takes it
Within(x, L) == length(x) <= L * LenScale

\* C2 as stated: after every tick every stored acceleration has magnitude at
\* most max_velocity, every velocity at most max_acceleration and every
\* position at most 2 * galaxy_diameter.
C2_Original ==
    AfterTick(1) =>
        \A k \in DOMAIN star[1] :
            /\ Within(star[1][k].acceleration, max_velocity)
            /\ Within(star[1][k].velocity, max_acceleration)
            /\ Within(star[1][k].position, 2 * galaxy_diameter)

\* every component within L, and the length within one rounding unit of L
WithinRounded(x, L) ==
    /\ \A c \in Axes : Abs(x[c]) <= L
    /\ Dot(x, x) <= Square(L + 1)

\* C2 (amended): after every tick, from any starting state, every component
\* of the stored acceleration, velocity and position is at most max_velocity,
\* max_acceleration and 2 * galaxy_diameter in absolute value, and the
\* magnitude exceeds that limit by no more than the rounding of the rescale.
C2_ClampedUpToRounding ==
    AfterTick(1) =>
        \A k \in DOMAIN star[1] :
            /\ WithinRounded(star[1][k].acceleration, max_velocity)
            /\ WithinRounded(star[1][k].velocity, max_acceleration)
            /\ WithinRounded(star[1][k].position, 2 * galaxy_diameter)

\* a body that began the tick above all three limits was brought within them
C2_Witness ==
    /\ AfterTick(1)
    /\ \E k \in DOMAIN star[1] :
          /\ k > 0
          /\ ~Within(start[1][k].velocity, max_acceleration)
          /\ ~Within(start[1][k].position, 2 * galaxy_diameter)
          /\ ~Within(FreshAcceleration(start[1], k), max_velocity)
          /\ WithinRounded(star[1][k].acceleration, max_velocity)
          /\ WithinRounded(star[1][k].velocity, max_acceleration)
          /\ WithinRounded(star[1][k].position, 2 * galaxy_diameter)

\* what one tick of elapsed time td is to store for a body that began it as s
\* and was given the freshly summed acceleration a
TickOf(s, a, td, anchor) ==
    LET a1 == ClampTo(a, max_velocity)
        v1 == ClampTo(VAdd(s.velocity, a1), max_acceleration)
        p1 == ClampTo([c \in Axes |->
                         s.position[c]
                           + RoundDiv((HalfScale * v1[c] + a1[c]) * td * time_factor,
                                      HalfScale * PosScale)],
                      2 * galaxy_diameter)
    IN [position |-> IF anchor THEN Zero ELSE p1,
        velocity |-> v1,
        acceleration |-> a1,
        mass |-> s.mass]

\* C9: a tick stores for every body a' = clamp(fresh sum, A), v' = clamp(v + a', B),
\* p' = clamp(p + (v' + a' * 0.5) * dt * time_factor, 2D) (the origin for the
\* anchor) and the unchanged mass; the acceleration stored before is not used.
C9_TickFormula ==
    AfterTick(1) =>
        \A k \in DOMAIN star[1] :
            star[1][k] = TickOf(start[1][k], FreshAcceleration(start[1], k),
                                as_secs_f64(time[1]), k = 0)

\* a body with a stale acceleration, whose fresh acceleration is left as it
\* is by the clamp, moved during a tick of positive elapsed time
C9_Witness ==
    /\ AfterTick(1)
    /\ time[1] > 0
    /\ \E k \in DOMAIN star[1] :
          /\ k > 0
          /\ start[1][k].acceleration # Zero
          /\ FreshAcceleration(start[1], k) # Zero
          /\ FreshAcceleration(start[1], k) # start[1][k].acceleration
          /\ star[1][k].acceleration = FreshAcceleration(start[1], k)
          /\ star[1][k].position # start[1][k].position

\* C6: after a tick every entity's translation is (position - zero offset) *
\* (1000 / galaxy_diameter) per component, narrowed, in index order, whatever
\* min and max came out; a body at (D, 0, 0) is shown at (1000, 0, 0).
C6_DisplayMapping ==
    AfterTick(1) =>
        \A k \in DOMAIN star[1] :
            /\ transform[1][k] =
                  [c \in Axes |->
                      RoundDiv(star[1][k].position[c]
                                 * RoundDiv(DisplaySize * DisplayScale, galaxy_diameter),
                               DisplayScale)]
            /\ star[1][k].position = <<galaxy_diameter, 0, 0>>
                  => transform[1][k] = <<DisplaySize, 0, 0>>

\* a body at (D, 0, 0) shown at (1000, 0, 0) while the box is not a point
C6_Witness ==
    /\ AfterTick(1)
    /\ min[1] # max[1]
    /\ \E k \in DOMAIN star[1] :
          /\ star[1][k].position = <<galaxy_diameter, 0, 0>>
          /\ transform[1][k] = <<DisplaySize, 0, 0>>

TwoAtRest(s) ==
    /\ Count(s) = 2
    /\ s[0].velocity = Zero /\ s[1].velocity = Zero
    /\ Dot(VSub(s[1].position, s[0].position), VSub(s[1].position, s[0].position))
          > Square(min_gravity_distance)

\* a is not zero and no component of it points away from d
PointsAlong(a, d) == Dot(a, d) > 0 /\ \A c \in Axes : a[c] * d[c] >= 0

\* C8 as stated: for two bodies at rest further apart than the threshold,
\* after one tick each body's acceleration points toward the other body.
C8_Original ==
    (AfterTick(1) /\ TwoAtRest(start[1])) =>
        /\ PointsAlong(star[1][0].acceleration,
                       VSub(start[1][1].position, start[1][0].position))
        /\ PointsAlong(star[1][1].acceleration,
                       VSub(start[1][0].position, start[1][1].position))

\* C8 (amended): for two bodies at rest further apart than the threshold,
\* after one tick the acceleration of each body whose partner has positive
\* mass points toward the position the partner had when the tick began, and
\* the acceleration of a body whose partner has mass zero is zero.
C8_PullTowardMassivePartner ==
    (AfterTick(1) /\ TwoAtRest(start[1])) =>
        \A k \in {0, 1} :
            IF start[1][1 - k].mass > 0
            THEN PointsAlong(star[1][k].acceleration,
                             VSub(start[1][1 - k].position, start[1][k].position))
            ELSE star[1][k].acceleration = Zero

\* both bodies have mass and each was pulled toward the other
C8_Witness ==
    /\ AfterTick(1)
    /\ TwoAtRest(start[1])
    /\ start[1][0].mass > 0 /\ start[1][1].mass > 0
    /\ PointsAlong(star[1][0].acceleration,
                   VSub(start[1][1].position, start[1][0].position))
    /\ PointsAlong(star[1][1].acceleration,
                   VSub(start[1][0].position, start[1][1].position))

\* the tick began with a massless anchor at the origin and one body of
\* positive mass at rest, further from it than the threshold
LoneBodyAtRest(s) ==
    /\ Count(s) = 2
    /\ s[0].mass = 0 /\ s[0].position = Zero
    /\ s[1].mass > 0 /\ s[1].velocity = Zero
    /\ Dot(s[1].position, s[1].position) > Square(min_gravity_distance)

\* the second body has no acceleration and is where and as it was, the anchor
\* is at the origin (the condition then holds for the next tick as well)
LoneBodyStays ==
    /\ star[1][1].acceleration = Zero
    /\ star[1][1].velocity = Zero
    /\ star[1][1].position = start[1][1].position
    /\ star[1][0].position = Zero

\* C10 as stated: with a massless anchor at the origin and a second body of
\* positive mass at rest beyond the threshold, every tick leaves the second
\* body with zero acceleration and its position and velocity unchanged.
C10_Original == (AfterTick(1) /\ LoneBodyAtRest(start[1])) => LoneBodyStays

\* C10 (amended): the same, for a second body that is beyond the threshold
\* and no further than 2 * galaxy_diameter from the origin.
C10_StaysWithinSphere ==
    (/\ AfterTick(1)
     /\ LoneBodyAtRest(start[1])
     /\ Within(start[1][1].position, 2 * galaxy_diameter)) => LoneBodyStays

\* two ticks of positive elapsed time have passed and the body is in place
C10_Witness ==
    /\ AfterTick(1)
    /\ ticks[1] = 2
    /\ deltas = <<2, 1>>
    /\ LoneBodyAtRest(start[1])
    /\ Within(start[1][1].position, 2 * galaxy_diameter)
    /\ LoneBodyStays

\* C4: a tick on an empty population completes (it does not panic), leaves
\* the world as it was and yields no translation.
C4_EmptyTickIsNoOp ==
    Count(star[1]) = 0 =>
        /\ pc[1] # "panicked"
        /\ star[1] = start[1]
        /\ Count(transform[1]) = 0
=============================================================================
